---- MODULE Spec2Model ----
(***************************************************************************)
(* Model of pyqsp's command-line entry point, CommandLine (pyqsp/main.py), *)
(* together with the parts of the synthesis engine it calls: the angle     *)
(* solver's bounded retry loop, the polynomial builders, ham_sim, the      *)
(* named phase generators and PlotQSPResponse.  One behaviour is one call  *)
(* of CommandLine; the caller's inputs are drawn in Init.                  *)
(***************************************************************************)
EXTENDS Integers, Sequences, FiniteSets, TLC

\* largest --niter / solver default retry budget explored
MaxNiter == 3

----------------------------------------------------------------------------
\* Values

\* Python's None for an optional string
None == "None"

\* an optional sequence (phiset, ret): None or a list
NoSeq == [some |-> FALSE, v |-> <<>>]
Some(s) == [some |-> TRUE, v |-> s]

\* an optional list-valued option (--poly, --seqargs).  kind is "none"
\* (option absent), "str" (a string; s holds value.split(",")) or "list"
\* (a list of floats in l, possible only when the caller passes args directly)
NoOpt == [kind |-> "none", s |-> <<>>, l |-> <<>>]
StrOpt(pieces) == [kind |-> "str", s |-> pieces, l |-> <<>>]
ListOpt(fl) == [kind |-> "list", s |-> <<>>, l |-> fl]

\* the pieces of "" , "1", "-1,0,2", "1,x", "2,1,1" after split(",")
RawLists == { <<"">>, <<"1">>, <<"-1", "0", "2">>, <<"1", "x">>, <<"2", "1", "1">> }

\* float(piece) succeeds on these pieces only
IsFloat(p) == p \in {"-1", "0", "1", "2"}

ToFloat(p) == CASE p = "-1" -> 0 - 1
                [] p = "0" -> 0
                [] p = "1" -> 1
                [] p = "2" -> 2
                [] OTHER -> 0

\* float_list: list(map(float, value.split(","))); ValueError on a bad piece
float_list(pieces) ==
    IF \A i \in DOMAIN pieces : IsFloat(pieces[i])
    THEN [ok |-> TRUE, v |-> [i \in DOMAIN pieces |-> ToFloat(pieces[i])]]
    ELSE [ok |-> FALSE, v |-> <<>>]

\* Python truthiness of an option value: None, [] and "" are falsy
TruthyEmptyListOk(x) ==
    /\ x.kind # "none"
    /\ (x.kind = "str" => x.s # <<"">>)

Truthy(x) ==
    /\ x.kind # "none"
    /\ (x.kind = "str" => x.s # <<"">>)
    /\ (x.kind = "list" => Len(x.l) > 0)

----------------------------------------------------------------------------
\* Commands

\* the commands the usage text lists
UsageCommands == {"poly2angles", "hamsim", "invert", "poly_sign", "angles"}

\* the commands the if/elif chain handles
HandledCommands == {"poly2angles", "hamsim", "invert", "poly_erf", "angles"}

\* the commands that run the angle solver
SolvingCommands == {"poly2angles", "invert", "poly_erf"}

Commands == UsageCommands \cup HandledCommands \cup {"frobnicate"}

\* the branch of the if/elif/else chain a command string selects
Branch(cmd) == IF cmd \in HandledCommands THEN cmd ELSE "unknown"

Models == {"Wx", "Wz"}

\* model= keyword of the QuantumSignalProcessingPhases call ("absent": not passed)
SolverModelArg(a) == IF a.cmd = "poly2angles" THEN a.model ELSE "absent"

\* is max_nretries= passed to QuantumSignalProcessingPhases
SolverRetriesPassed(a) == a.cmd \in {"invert", "poly_erf"}

\* model= keyword of the PlotQSPResponse call
PlotModelArg(a) == IF a.cmd = "poly2angles" THEN a.model
                   ELSE IF a.cmd = "hamsim" THEN "Wz" ELSE "Wx"

\* known phase generators and the argument counts their generate accepts
phase_generators == {"fpsearch", "erf_step"}

ArityOk(name, n) == IF name = "fpsearch" THEN n \in {2, 3} ELSE n = 1

\* which way the angles branch goes: "list" (print known generators, return),
\* "help" (print the generator's help, return) or "generate"
AnglesPathNoArgCheck(a) ==
    IF a.seqname = None \/ a.seqname \notin phase_generators THEN "list"
    ELSE "generate"

AnglesPath(a) ==
    IF a.seqname = None \/ a.seqname \notin phase_generators THEN "list"
    ELSE IF ~Truthy(a.seqargs) THEN "help"
    ELSE "generate"

\* where control goes after a callee returned (ok) or raised
AfterCalleeSwallow(ok) == "plot"

AfterCallee(ok) == IF ok THEN "plot" ELSE "raise"

\* the value CommandLine returns at its last statement
ReturnValueAlways(phi, a) == phi

ReturnValue(phi, a) == IF phi.some /\ a.return_angles THEN phi ELSE NoSeq

\* phase alignment: a new sequence whose first angle is zero
Align(s) == [i \in DOMAIN s |-> s[i] - s[1]]

\* phiset after the PlotQSPResponse call: the call's result is discarded
PhisetAfterPlotRebound(phi, a) == IF a.align_first_point_phase THEN Some(Align(phi.v)) ELSE phi

PhisetAfterPlot(phi, a) == phi

\* the retry loop's guard: another attempt is allowed
CanAttemptOffByOne(n, budget) == n <= budget

CanAttempt(n, budget) == n < budget

\* angles a producer may yield (abstract values)
Angles == {1, 2}

\* phase sequences of length n
PhaseSeqs(n) == [1..n -> Angles]

----------------------------------------------------------------------------
VARIABLES
    input,          \* what the caller handed to CommandLine
    defaults,       \* QuantumSignalProcessingPhases' keyword defaults
    args,           \* the argparse namespace
    pc,             \* position in CommandLine
    branch,         \* branch of the if/elif chain taken ("" before dispatch)
    outcome,        \* "running", "returned", "exit" or "exception"
    exitStatus,     \* status of sys.exit, -1 when not exited
    exc,            \* name of the exception that left CommandLine
    coefs,          \* polynomial coefficients handed to the solver
    phiset,         \* the local phiset
    produced,       \* the sequence the solver/ham_sim/generator yielded
    solverCall,     \* the QuantumSignalProcessingPhases invocation
    attempts,       \* solver attempts made so far
    retried,        \* retry triggers seen inside the solve
    plotCall,       \* the PlotQSPResponse invocation
    generateCalled, \* pg.generate was called
    printed,        \* messages printed, in order
    ret             \* value returned to the caller

vars == <<input, defaults, args, pc, branch, outcome, exitStatus, exc, coefs,
          phiset, produced, solverCall, attempts, retried, plotCall,
          generateCalled, printed, ret>>

NoCall == [called |-> FALSE, pcoefs |-> <<>>, model |-> "absent",
           retries_passed |-> FALSE, max_nretries |-> 0]

NoPlot == [called |-> FALSE, phiset |-> NoSeq, model |-> "absent",
           align |-> FALSE, show |-> FALSE, drawn |-> <<>>]

Msg(m, a) == [msg |-> m, arg |-> a]

\* argparse defaults
BaseInput(c) ==
    [direct |-> FALSE, cmd |-> c, model |-> "Wx", plot |-> FALSE,
     hide_plot |-> FALSE, return_angles |-> FALSE,
     align_first_point_phase |-> FALSE,
     poly |-> NoOpt, niter |-> 2, seqname |-> None, seqargs |-> NoOpt]

\* option values a caller can give: strings on the command line, any value
\* when passing an args namespace directly
OptValues(direct) ==
    {NoOpt} \cup {StrOpt(r) : r \in RawLists}
            \cup (IF direct THEN {ListOpt(<<>>), ListOpt(<<0 - 1, 0, 2>>)} ELSE {})

SeqArgValues(direct) ==
    IF direct THEN {NoOpt, ListOpt(<<>>), ListOpt(<<1>>), ListOpt(<<2, 1, 1>>)}
    ELSE {NoOpt} \cup {StrOpt(r) : r \in RawLists}

\* the common flags every command reads
WithFlags(b) ==
    { [b EXCEPT !.plot = p, !.hide_plot = h, !.return_angles = r,
                !.align_first_point_phase = al] :
        p \in BOOLEAN, h \in BOOLEAN, r \in BOOLEAN, al \in BOOLEAN }

\* the options a command reads vary; the others keep their defaults
InputsFor(c) ==
    UNION { WithFlags(b) : b \in
      IF c = "poly2angles"
      THEN UNION { { [BaseInput(c) EXCEPT !.direct = d, !.model = m, !.niter = n, !.poly = po]
                       : m \in Models, n \in 0..MaxNiter, po \in OptValues(d) }
                   : d \in BOOLEAN }
      ELSE IF c \in {"invert", "poly_erf"}
      THEN { [BaseInput(c) EXCEPT !.model = m, !.niter = n]
               : m \in Models, n \in 0..MaxNiter }
      ELSE IF c = "angles"
      THEN UNION { { [BaseInput(c) EXCEPT !.direct = d, !.seqname = sn, !.seqargs = sa]
                       : sn \in {None, "fpsearch", "erf_step", "nosuch"},
                         sa \in SeqArgValues(d) }
                   : d \in BOOLEAN }
      ELSE { [BaseInput(c) EXCEPT !.model = m] : m \in Models } }

Inputs == UNION { InputsFor(c) : c \in Commands }

Init ==
    /\ input \in Inputs
    /\ defaults \in [model : Models, max_nretries : 0..MaxNiter]
    /\ args = input
    /\ pc = "parse"
    /\ branch = ""
    /\ outcome = "running"
    /\ exitStatus = 0 - 1
    /\ exc = None
    /\ coefs = <<>>
    /\ phiset = NoSeq
    /\ produced = NoSeq
    /\ solverCall = NoCall
    /\ attempts = 0
    /\ retried = 0
    /\ plotCall = NoPlot
    /\ generateCalled = FALSE
    /\ printed = <<>>
    /\ ret = NoSeq

----------------------------------------------------------------------------
\* Helpers of the actions

\* the model and retry budget the solver runs with: a keyword that was not
\* passed takes the solver's default
EffModel(call) == IF call.model = "absent" THEN defaults.model ELSE call.model

Budget(call) == IF call.retries_passed THEN call.max_nretries
                ELSE defaults.max_nretries

\* argparse applies type=float_list to an option given on the command line
ConvOk(o) == o.kind = "str" => float_list(o.s).ok

Conv(o) == IF o.kind = "str" THEN ListOpt(float_list(o.s).v) ELSE o

\* polynomials the approximation builders may yield (abstract coefficients)
BuilderPolys == { <<0, 1>>, <<0, 1, 0, 0 - 1>> }

\* lengths of the sequences ham_sim and the generators may yield
ProducerLens == {2, 3}

SolverCallOf(a, pcoefs) ==
    [called |-> TRUE, pcoefs |-> pcoefs, model |-> SolverModelArg(a),
     retries_passed |-> SolverRetriesPassed(a),
     max_nretries |-> IF SolverRetriesPassed(a) THEN a.niter ELSE 0]

\* a callee handed back the sequence s
CalleeReturn(s) ==
    /\ phiset' = Some(s)
    /\ produced' = Some(s)
    /\ pc' = AfterCallee(TRUE)
    /\ exc' = exc

\* a callee raised e
CalleeRaise(e) ==
    /\ exc' = e
    /\ pc' = AfterCallee(FALSE)
    /\ UNCHANGED <<phiset, produced>>

Exit(status) ==
    /\ outcome' = "exit"
    /\ exitStatus' = status
    /\ pc' = "done"

----------------------------------------------------------------------------
\* Actions

\* args = parser.parse_args(arglist), skipped when the caller passed args
Parse ==
    /\ pc = "parse"
    /\ IF input.direct
       THEN /\ pc' = "dispatch"
            /\ UNCHANGED <<args, outcome, exitStatus, printed>>
       ELSE IF ConvOk(input.poly) /\ ConvOk(input.seqargs)
       THEN /\ args' = [input EXCEPT !.poly = Conv(input.poly),
                                     !.seqargs = Conv(input.seqargs)]
            /\ pc' = "dispatch"
            /\ UNCHANGED <<outcome, exitStatus, printed>>
       ELSE /\ printed' = Append(printed, Msg("argparse_error", None))
            /\ Exit(2)
            /\ UNCHANGED args
    /\ UNCHANGED <<input, defaults, branch, exc, coefs, phiset, produced,
                   solverCall, attempts, retried, plotCall, generateCalled, ret>>

\* cmd == "poly2angles", up to the solver call
Poly2Angles ==
    /\ pc = "dispatch"
    /\ Branch(args.cmd) = "poly2angles"
    /\ branch' = "poly2angles"
    /\ IF ~Truthy(args.poly)
       THEN /\ printed' = Append(printed, Msg("need_poly", None))
            /\ Exit(0)
            /\ UNCHANGED <<exc, coefs, solverCall>>
       ELSE IF ~ConvOk(args.poly)
       THEN /\ exc' = "ValueError"
            /\ pc' = "raise"
            /\ UNCHANGED <<printed, outcome, exitStatus, coefs, solverCall>>
       ELSE /\ coefs' = Conv(args.poly).l
            /\ printed' = Append(printed, Msg("coefs", None))
            /\ solverCall' = SolverCallOf(args, Conv(args.poly).l)
            /\ pc' = "solve"
            /\ UNCHANGED <<exc, outcome, exitStatus>>
    /\ UNCHANGED <<input, defaults, args, phiset, produced, attempts, retried,
                   plotCall, generateCalled, ret>>

\* cmd == "hamsim": ham_sim.ham_sim(tau, 1.0e-4, 1 - 1.0e-4)
HamSim ==
    /\ pc = "dispatch"
    /\ Branch(args.cmd) = "hamsim"
    /\ branch' = "hamsim"
    /\ \/ \E n \in ProducerLens : \E s \in PhaseSeqs(n) : CalleeReturn(s)
       \/ CalleeRaise("ApproximationError")
    /\ UNCHANGED <<input, defaults, args, outcome, exitStatus, coefs,
                   solverCall, attempts, retried, plotCall, generateCalled,
                   printed, ret>>

\* cmd == "invert": PolyOneOverX, then the solver call
Invert ==
    /\ pc = "dispatch"
    /\ Branch(args.cmd) = "invert"
    /\ branch' = "invert"
    /\ \/ \E p \in BuilderPolys :
            /\ coefs' = p
            /\ solverCall' = SolverCallOf(args, p)
            /\ pc' = "solve"
            /\ exc' = exc
       \/ /\ exc' = "ApproximationError"
          /\ pc' = "raise"
          /\ UNCHANGED <<coefs, solverCall>>
    /\ UNCHANGED <<input, defaults, args, outcome, exitStatus, phiset,
                   produced, attempts, retried, plotCall, generateCalled,
                   printed, ret>>

\* cmd == "poly_erf": PolyErf, print the coefficients, then the solver call
PolyErf ==
    /\ pc = "dispatch"
    /\ Branch(args.cmd) = "poly_erf"
    /\ branch' = "poly_erf"
    /\ \/ \E p \in BuilderPolys :
            /\ coefs' = p
            /\ printed' = Append(printed, Msg("coefs", None))
            /\ solverCall' = SolverCallOf(args, p)
            /\ pc' = "solve"
            /\ exc' = exc
       \/ /\ exc' = "ApproximationError"
          /\ pc' = "raise"
          /\ UNCHANGED <<coefs, solverCall, printed>>
    /\ UNCHANGED <<input, defaults, args, outcome, exitStatus, phiset,
                   produced, attempts, retried, plotCall, generateCalled, ret>>

\* one attempt of QuantumSignalProcessingPhases: it converges, or it hits an
\* out-of-range trigonometric argument or an excessive residual and retries
SolverAttempt ==
    /\ pc = "solve"
    /\ CanAttempt(attempts, Budget(solverCall))
    /\ attempts' = attempts + 1
    /\ \/ /\ \E s \in PhaseSeqs(Len(coefs)) : CalleeReturn(s)
          /\ UNCHANGED retried
       \/ /\ \E trigger \in {"out_of_range", "residual"} : retried' = retried + 1
          /\ UNCHANGED <<pc, exc, phiset, produced>>
    /\ UNCHANGED <<input, defaults, args, branch, outcome, exitStatus, coefs,
                   solverCall, plotCall, generateCalled, printed, ret>>

\* the retry budget is used up: ConvergenceError
SolverExhausted ==
    /\ pc = "solve"
    /\ ~CanAttempt(attempts, Budget(solverCall))
    /\ CalleeRaise("ConvergenceError")
    /\ UNCHANGED <<input, defaults, args, branch, outcome, exitStatus, coefs,
                   solverCall, attempts, retried, plotCall, generateCalled,
                   printed, ret>>

\* cmd == "angles"
AnglesCmd ==
    /\ pc = "dispatch"
    /\ Branch(args.cmd) = "angles"
    /\ branch' = "angles"
    /\ IF AnglesPath(args) = "list"
       THEN /\ printed' = Append(printed, Msg("known_generators", None))
            /\ outcome' = "returned"
            /\ pc' = "done"
            /\ UNCHANGED <<exc, phiset, produced, generateCalled>>
       ELSE IF AnglesPath(args) = "help"
       THEN /\ printed' = Append(printed, Msg("generator_help", args.seqname))
            /\ outcome' = "returned"
            /\ pc' = "done"
            /\ UNCHANGED <<exc, phiset, produced, generateCalled>>
       ELSE /\ generateCalled' = TRUE
            /\ outcome' = outcome
            /\ IF ArityOk(args.seqname, Len(args.seqargs.l))
               THEN /\ \E n \in ProducerLens : \E s \in PhaseSeqs(n) : CalleeReturn(s)
                    /\ printed' = Append(printed, Msg("phiset", None))
               ELSE /\ CalleeRaise("ArgumentError")
                    /\ UNCHANGED printed
    /\ UNCHANGED <<input, defaults, args, exitStatus, coefs, solverCall,
                   attempts, retried, plotCall, ret>>

\* the else branch: the f-string reads the undefined name cmd
UnknownCommand ==
    /\ pc = "dispatch"
    /\ Branch(args.cmd) = "unknown"
    /\ branch' = "unknown"
    /\ exc' = "NameError"
    /\ outcome' = "exception"
    /\ pc' = "done"
    /\ UNCHANGED <<input, defaults, args, exitStatus, coefs, phiset, produced,
                   solverCall, attempts, retried, plotCall, generateCalled,
                   printed, ret>>

\* if args.plot: response.PlotQSPResponse(phiset, ...)
Plot ==
    /\ pc = "plot"
    /\ IF args.plot
       THEN /\ plotCall' = [called |-> TRUE, phiset |-> phiset,
                            model |-> PlotModelArg(args),
                            align |-> args.align_first_point_phase,
                            show |-> ~args.hide_plot,
                            drawn |-> IF args.align_first_point_phase
                                      THEN Align(phiset.v) ELSE phiset.v]
            /\ phiset' = PhisetAfterPlot(phiset, args)
       ELSE UNCHANGED <<plotCall, phiset>>
    /\ pc' = "return"
    /\ UNCHANGED <<input, defaults, args, branch, outcome, exitStatus, exc,
                   coefs, produced, solverCall, attempts, retried,
                   generateCalled, printed, ret>>

\* if (phiset is not None) and args.return_angles: return phiset
Return ==
    /\ pc = "return"
    /\ ret' = ReturnValue(phiset, args)
    /\ outcome' = "returned"
    /\ pc' = "done"
    /\ UNCHANGED <<input, defaults, args, branch, exitStatus, exc, coefs,
                   phiset, produced, solverCall, attempts, retried, plotCall,
                   generateCalled, printed>>

\* an exception raised by a callee leaves CommandLine: there is no handler
Raise ==
    /\ pc = "raise"
    /\ outcome' = "exception"
    /\ pc' = "done"
    /\ UNCHANGED <<input, defaults, args, branch, exitStatus, exc, coefs,
                   phiset, produced, solverCall, attempts, retried, plotCall,
                   generateCalled, printed, ret>>

Next ==
    \/ Parse
    \/ Poly2Angles
    \/ HamSim
    \/ Invert
    \/ PolyErf
    \/ SolverAttempt
    \/ SolverExhausted
    \/ AnglesCmd
    \/ UnknownCommand
    \/ Plot
    \/ Return
    \/ Raise

Spec == Init /\ [][Next]_vars

\* CommandLine is synchronous straight-line code: it keeps running until it
\* returns, exits or raises
FairSpec == Init /\ [][Next]_vars /\ WF_vars(Next)

----------------------------------------------------------------------------
\* Properties

\* C1: every solving command runs the solver with, and draws the plot with,
\* the model selected by --model
ModelHonoured ==
    args.cmd \in SolvingCommands =>
        /\ solverCall.called => EffModel(solverCall) = args.model
        /\ plotCall.called => plotCall.model = args.model

\* C2: every solving command runs the solver with the retry budget selected
\* by --niter
RetriesHonoured ==
    (args.cmd \in SolvingCommands /\ solverCall.called) =>
        Budget(solverCall) = args.niter

\* C3: a command listed in the usage text never reaches the unknown-command
\* branch
UsageRecognised ==
    (args.cmd \in UsageCommands /\ branch # "") => branch # "unknown"

\* the angles command was given no usable sequence name or no arguments
AnglesMisuse ==
    /\ branch = "angles"
    /\ \/ args.seqname = None
       \/ args.seqname \notin phase_generators
       \/ args.seqargs.kind = "none"
       \/ args.seqargs = ListOpt(<<>>)

\* C4: the angles command with an absent or unknown sequence name, or without
\* sequence arguments, prints the known generators or the generator's help
\* and returns normally: generate is not called, nothing is plotted or
\* returned, and the process neither exits nor raises
AnglesMisuseReported ==
    AnglesMisuse =>
        /\ outcome = "returned"
        /\ printed = IF args.seqname = None \/ args.seqname \notin phase_generators
                     THEN << Msg("known_generators", None) >>
                     ELSE << Msg("generator_help", args.seqname) >>
        /\ ~generateCalled
        /\ ~plotCall.called
        /\ ~ret.some
        /\ exc = None
        /\ exitStatus = 0 - 1

AnglesHelpShown ==
    /\ AnglesMisuse
    /\ args.seqname = "fpsearch"
    /\ args.plot /\ args.return_angles
    /\ outcome = "returned"

\* C5: a completed run returns a phase sequence exactly when --return-angles
\* is set and the command produced one; otherwise it returns None
ReturnsIffRequested ==
    outcome = "returned" =>
        (ret.some <=> (args.return_angles /\ produced.some))

SequenceReturned ==
    /\ outcome = "returned"
    /\ ret.some
    /\ branch = "hamsim"

\* C6: the solver never makes more attempts than its retry budget, raises
\* ConvergenceError only when the budget is used up, and every solve ends
SolveTerminates ==
    /\ [](solverCall.called => attempts <= Budget(solverCall))
    /\ [](exc = "ConvergenceError" => attempts = Budget(solverCall))
    /\ [](produced.some /\ solverCall.called => attempts >= 1)
    /\ (pc = "solve" ~> pc = "done")

BudgetExhausted ==
    /\ exc = "ConvergenceError"
    /\ attempts >= 2
    /\ outcome = "exception"

\* C7: a plot or a returned sequence exists only if its producer completed;
\* a failing producer's exception leaves CommandLine with no plot and no
\* returned sequence; a retry trigger inside a solve surfaces only as
\* ConvergenceError once the budget is used up
FailurePropagates ==
    /\ plotCall.called => (produced.some /\ exc = None /\ plotCall.phiset = produced)
    /\ ret.some => (produced.some /\ exc = None)
    /\ (exc # None /\ pc = "done") =>
          (outcome = "exception" /\ ~plotCall.called /\ ~ret.some /\ ~produced.some)
    /\ (retried > 0 /\ exc # None) =>
          (exc = "ConvergenceError" /\ attempts >= Budget(solverCall))

SolverFailureSeen ==
    /\ exc = "ConvergenceError"
    /\ retried > 0
    /\ args.plot /\ args.return_angles
    /\ outcome = "exception"

\* C8: an unhandled command prints the unknown-command message naming it and
\* the usage text, then returns None without raising
UnknownReported ==
    branch = "unknown" =>
        /\ outcome = "returned"
        /\ printed = << Msg("unknown_command", args.cmd), Msg("usage", None) >>
        /\ ~ret.some
        /\ exc = None
        /\ ~solverCall.called /\ ~generateCalled /\ ~plotCall.called

\* C9: the returned sequence is the one the producer yielded, whatever the
\* plotting flags: plotting and alignment act on the plot only
ReturnedIsProduced ==
    /\ ret.some => ret = produced
    /\ (pc \in {"return", "done"} /\ produced.some) => phiset = produced

AlignedPlotSameReturn ==
    /\ ret.some
    /\ plotCall.called /\ plotCall.align
    /\ plotCall.drawn # ret.v

\* the caller supplied no polynomial coefficients
PolyAbsentOrEmpty ==
    /\ input.cmd = "poly2angles"
    /\ \/ input.poly.kind = "none"
       \/ input.poly = StrOpt(<<"">>)
       \/ input.poly = ListOpt(<<>>)

\* an empty --poly string given on the command line
PolyEmptyOnCommandLine ==
    /\ input.cmd = "poly2angles"
    /\ ~input.direct
    /\ input.poly = StrOpt(<<"">>)

NeverSolved == ~solverCall.called /\ ~plotCall.called /\ ~ret.some /\ exc = None

\* C10 as stated: poly2angles without coefficients (--poly absent or empty)
\* asks for --poly and exits with status 0, without solving or plotting
NoPolyExitsZero ==
    (PolyAbsentOrEmpty /\ pc = "done") =>
        /\ outcome = "exit" /\ exitStatus = 0
        /\ printed = << Msg("need_poly", None) >>
        /\ NeverSolved

\* C10 amended: the same, except that an empty --poly string on the command
\* line is rejected by the argument parser with exit status 2
NoPolyExits ==
    (PolyAbsentOrEmpty /\ pc = "done") =>
        /\ outcome = "exit"
        /\ NeverSolved
        /\ IF PolyEmptyOnCommandLine
           THEN exitStatus = 2 /\ printed = << Msg("argparse_error", None) >>
           ELSE exitStatus = 0 /\ printed = << Msg("need_poly", None) >>

NoPolyExitSeen ==
    /\ PolyAbsentOrEmpty
    /\ input.poly = ListOpt(<<>>)
    /\ args.return_angles
    /\ outcome = "exit" /\ exitStatus = 0

====
